---- MODULE Spec2Model ----
(***************************************************************************)
(* Video-Watermark: the main-process batch runner of src/main.js, the      *)
(* 'process-videos' IPC handler, together with the scratch-directory       *)
(* registry, the window the handler reports to and the page of            *)
(* src/script.js: the click handler that issues the batch request, the     *)
(* file selector and the listeners of the batch's messages.  The pure      *)
(* helpers of main.js are operators, each applied by a small               *)
(* specification of its own.                                               *)
(*                                                                         *)
(* One action is one run of the handler between two suspension points      *)
(* (awaits): JavaScript runs such a stretch to completion, so the pushes   *)
(* and sends inside it are one step.  The outcomes of the external tools   *)
(* (fs, ffprobe, ffmpeg, sharp, canvas) are chosen nondeterministically.   *)
(***************************************************************************)
EXTENDS Integers, Sequences, FiniteSets, TLC

VARIABLES
  videoFiles,        \* options.videoFiles: sequence of paths
  enableSmartColor,  \* options.enableSmartColor
  watermarkColor,    \* options.watermarkColor
  position,          \* options.position
  watermarkText,     \* options.watermarkText (value of the text field)
  i,                 \* loop index of the handler (0-based, as in the code)
  pc,                \* where the handler is suspended
  results,           \* the handler's local `results` array
  finalColor,        \* local of the current iteration
  colorType,         \* local of the current iteration
  raised,            \* the error the handler's promise rejected with
  tempDirs,          \* the module-level Set tempDirs
  mainWindow,        \* state of the BrowserWindow behind `mainWindow`
  events,            \* messages accepted by mainWindow.webContents.send, in order
  stages,            \* log of the calls the handler made, in order
  nprog,             \* progress reports handled so far in this batch
  uncaught,          \* an exception escaped an ffmpeg event listener
  alert,             \* the last alert() the page showed
  arg,               \* argument of the helper function under test
  out,               \* what the helper returned: <<>>, then <<value>>
  cleanup,           \* progress of cleanupTempDirs
  selectedVideos,    \* script.js:1, the page's list of selected videos
  selectedPosition,  \* script.js:2
  rows,              \* the rows of #fileList, row k+1 holding the ids *-k
  isProcessing,      \* script.js:3
  disabled,          \* processButton.disabled
  dialog,            \* the file dialog of 'select-videos'
  seen,              \* how many of the sent messages the page has handled
  inflight           \* processVideos calls issued and not yet settled

opts == <<videoFiles, enableSmartColor, watermarkColor, position, watermarkText>>
page == <<selectedVideos, selectedPosition, rows, isProcessing, disabled, dialog, seen, inflight>>
aux == <<alert, arg, out, cleanup, page>>
vars == <<videoFiles, enableSmartColor, watermarkColor, position, watermarkText,
          i, pc, results, finalColor, colorType, raised, tempDirs, mainWindow,
          events, stages, nprog, uncaught, alert, arg, out, cleanup,
          selectedVideos, selectedPosition, rows, isProcessing, disabled, dialog,
          seen, inflight>>

----------------------------------------------------------------------------
(* Bounds of the model *)

MaxFiles == 2
MaxProgress == 1
MaxReports == 2
MaxTextLen == 4
MaxWidth == 4
MaxDirs == 3
MaxColorLen == 7

(* Inputs *)

Dirs == <<"/videos", "/tmp/in">>
Stems == <<"a", "b", "clip.final">>
Exts == <<".mp4", ".mov", ".mkv">>

\* the k-th selectable file (k >= 1); consecutive files differ in base name
File(k) == [dir  |-> Dirs[((k - 1) % 2) + 1],
            stem |-> Stems[((k - 1) % 3) + 1],
            ext  |-> Exts[((k - 1) % 3) + 1]]

WatermarkColors == {"#FFFFFF"}
WatermarkTexts == {"", "demo"}
Positions == {"top-left"}
DirNames == <<"video-wm-1", "video-wm-2">>
\* `progress` objects reported by the running ffmpeg, percent in tenths of a
\* percent; the report of the batch specification, and the reports of the
\* progress specification: no percent field, 30.4, 50, 120.4 and -0.6
Percents == {[percent |-> 500]}
Reports == {[frames |-> 10], [percent |-> 304], [percent |-> 500],
            [percent |-> 1204], [percent |-> -6]}
AverageColors == {<<0, 0, 0>>, <<255, 255, 255>>}

\* region averages the color specification decides on: the channel values
\* combine to brightnesses of 0, 1, exactly 0.5 and values on both sides
Reds == {0, 22, 218, 255}
Greens == {0, 58, 204, 206, 255}
Blues == {0, 68, 248, 255}

NoValue == "none"

----------------------------------------------------------------------------
(* Pure helpers of src/main.js *)

\* path.basename(p), path.dirname(p), path.extname(p), path.basename(p, ext)
basename(p) == <<p.stem, p.ext>>
dirname(p) == p.dir
extname(p) == p.ext
basenameNoExt(p) == p.stem

\* an output name that keeps the extension of the source
outputFileOf_SourceExt(p) == [dir |-> dirname(p), stem |-> basenameNoExt(p),
                              suffix |-> "-watermark", ext |-> extname(p)]

\* main.js:391  path.join(videoDir, `${stem}-watermark.mp4`)
outputFileOf(p) == [dir |-> dirname(p), stem |-> basenameNoExt(p),
                    suffix |-> "-watermark", ext |-> ".mp4"]

\* Math.round(x) for x in tenths: the nearest integer, halves rounded up
MathRound(tenths) == (tenths + 5) \div 10

\* main.js:308  Math.round(progress.percent || 0)
RoundedPercent(progress) ==
  IF "percent" \in DOMAIN progress THEN MathRound(progress.percent) ELSE 0

(* IEEE 754 double arithmetic, as far as calculateBrightness needs it.    *)
(* A quantity is a natural number of units of 2^-56 (2^-67 after the     *)
(* division), written as its sequence of bits, lowest bit first; the     *)
(* arithmetic is done on limbs of 16 bits.                               *)

\* the lowest `width` bits of the small natural n
Bits(n, width) == [k \in 1..width |-> (n \div (2 ^ (k - 1))) % 2]

\* the natural hi * 2^40 + mid * 2^20 + lo
Big(hi, mid, lo) == Bits(lo, 20) \o Bits(mid, 20) \o Bits(hi, 20)

Zeros(n) == [k \in 1..n |-> 0]

\* without the zero bits at the high end
Strip(a) ==
  LET ones == {k \in DOMAIN a : a[k] = 1}
  IN IF ones = {} THEN <<>>
     ELSE SubSeq(a, 1, CHOOSE k \in ones : \A o \in ones : o <= k)

\* the value of a sequence of at most 30 bits
RECURSIVE Value(_)
Value(a) == IF a = <<>> THEN 0 ELSE Head(a) + 2 * Value(Tail(a))

\* bits k..min(k + width - 1, Len(a)) of a as a number
Chunk(a, k, width) ==
  Value(SubSeq(a, k, IF Len(a) < k + width - 1 THEN Len(a) ELSE k + width - 1))

ToLimbs(a) == [k \in 1..((Len(a) + 15) \div 16) |-> Chunk(a, 16 * (k - 1) + 1, 16)]
ToBits(l) ==
  [k \in 1..(16 * Len(l)) |-> (l[((k - 1) \div 16) + 1] \div (2 ^ ((k - 1) % 16))) % 2]

\* l * n + carry on limbs, for a natural n below 2^14
RECURSIVE MulLimbs(_, _, _)
MulLimbs(l, n, carry) ==
  IF l = <<>>
    THEN IF carry = 0 THEN <<>> ELSE <<carry>>
    ELSE LET t == Head(l) * n + carry
         IN <<t % 65536>> \o MulLimbs(Tail(l), n, t \div 65536)

\* l + m + carry on limbs
RECURSIVE AddLimbs(_, _, _)
AddLimbs(l, m, carry) ==
  IF l = <<>> /\ m = <<>>
    THEN IF carry = 0 THEN <<>> ELSE <<carry>>
    ELSE LET t == (IF l = <<>> THEN 0 ELSE Head(l))
                  + (IF m = <<>> THEN 0 ELSE Head(m)) + carry
         IN <<t % 65536>> \o AddLimbs(IF l = <<>> THEN l ELSE Tail(l),
                                      IF m = <<>> THEN m ELSE Tail(m),
                                      t \div 65536)

\* quotient and remainder of l by a natural n below 2^14, the remainder of
\* the higher limbs being rem
RECURSIVE DivLimbs(_, _, _)
DivLimbs(l, n, rem) ==
  IF l = <<>>
    THEN [q |-> <<>>, r |-> rem]
    ELSE LET t == 65536 * rem + l[Len(l)]
             low == DivLimbs(SubSeq(l, 1, Len(l) - 1), n, t % n)
         IN [q |-> Append(low.q, t \div n), r |-> low.r]

MulSmall(a, n) == Strip(ToBits(MulLimbs(ToLimbs(a), n, 0)))
AddBits(a, b) == Strip(ToBits(AddLimbs(ToLimbs(a), ToLimbs(b), 0)))
DivSmall(a, n) ==
  LET d == DivLimbs(ToLimbs(a), n, 0) IN [q |-> Strip(ToBits(d.q)), r |-> d.r]

\* the nearest quantity with at most 53 significant bits, ties to the even one
RoundToDouble(x) ==
  LET a == Strip(x)
      d == Len(a) - 53
  IN IF d <= 0 THEN a
     ELSE LET kept == SubSeq(a, d + 1, Len(a))
              up == /\ a[d] = 1
                    /\ \/ \E k \in 1..(d - 1) : a[k] = 1
                       \/ kept[1] = 1
          IN Zeros(d) \o (IF up THEN AddBits(kept, <<1>>) ELSE kept)

\* a quantity below 2^72 as three numbers: bits 1-24, 25-48 and 49-72
Limbs(a) == [k \in 1..3 |-> Chunk(a, 24 * (k - 1) + 1, 24)]

\* x > y for two quantities written as limbs
Greater(x, y) ==
  \/ x[3] > y[3]
  \/ x[3] = y[3] /\ x[2] > y[2]
  \/ x[3] = y[3] /\ x[2] = y[2] /\ x[1] > y[1]

\* main.js:84: the doubles nearest to 0.299, 0.587 and 0.114, in units of 2^-56
Coeff299 == Big(19595, 276824, 67108)
Coeff587 == Big(38469, 662700, 33552)
Coeff114 == Big(7471, 109051, 947913)

\* main.js:83-85: (0.299 * r + 0.587 * g + 0.114 * b) / 255, every operation
\* rounded to a double; the result is in units of 2^-67 (the sum is shifted
\* by 10 bits before the division and one bit is appended that tells whether
\* the division left a remainder)
calculateBrightness(r, g, b) ==
  LET pr == RoundToDouble(MulSmall(Coeff299, r))
      pg == RoundToDouble(MulSmall(Coeff587, g))
      pb == RoundToDouble(MulSmall(Coeff114, b))
      sum == RoundToDouble(AddBits(RoundToDouble(AddBits(pr, pg)), pb))
      d == DivSmall(Zeros(10) \o sum, 255)
  IN IF sum = <<>> THEN Limbs(<<>>)
     ELSE Limbs(RoundToDouble(<<IF d.r = 0 THEN 0 ELSE 1>> \o d.q))

\* main.js:22: 0.5 = 2^66 units of 2^-67
BRIGHTNESS_THRESHOLD == <<0, 0, 2 ^ 18>>

\* main.js:148-151: the doubles nearest to 0.3 and 0.7, in units of 2^-54
Coeff03 == Big(4915, 209715, 209715)
Coeff07 == Big(11468, 838860, 838860)

\* Math.floor(n * c) for a natural n below 2^14 and a double c in units of
\* 2^-54: the product is rounded to a double, then the fraction is dropped
FloorOfProduct(n, c) ==
  LET product == RoundToDouble(MulSmall(c, n))
  IN Value(SubSeq(product, 55, Len(product)))

Corners == {"top-left", "top-right", "bottom-left", "bottom-right"}

\* property names every object literal inherits from Object.prototype
InheritedKeys == {"constructor"}

\* getRegionConfig whose fallback is the top-left entry
getRegionConfig_FallbackTopLeft(pos, width, height) ==
  LET w3 == FloorOfProduct(width, Coeff03)
      h3 == FloorOfProduct(height, Coeff03)
      w7 == FloorOfProduct(width, Coeff07)
      h7 == FloorOfProduct(height, Coeff07)
      configs ==
        [p \in Corners |->
           [left   |-> IF p \in {"top-right", "bottom-right"} THEN w7 ELSE 0,
            top    |-> IF p \in {"bottom-left", "bottom-right"} THEN h7 ELSE 0,
            width  |-> w3,
            height |-> h3]]
  IN IF pos \in Corners THEN configs[pos]
     ELSE IF pos \in InheritedKeys THEN [inherited |-> pos]
     ELSE configs["top-left"]

\* main.js:146-154.  configs[position] finds the four entries and, for a
\* property name inherited from Object.prototype, that (truthy) member, which
\* is returned as it is; anything else is undefined and falls back.
getRegionConfig(pos, width, height) ==
  LET w3 == FloorOfProduct(width, Coeff03)
      h3 == FloorOfProduct(height, Coeff03)
      w7 == FloorOfProduct(width, Coeff07)
      h7 == FloorOfProduct(height, Coeff07)
      configs ==
        [p \in Corners |->
           [left   |-> IF p \in {"top-right", "bottom-right"} THEN w7 ELSE 0,
            top    |-> IF p \in {"bottom-left", "bottom-right"} THEN h7 ELSE 0,
            width  |-> w3,
            height |-> h3]]
  IN IF pos \in Corners THEN configs[pos]
     ELSE IF pos \in InheritedKeys THEN [inherited |-> pos]
     ELSE configs["bottom-right"]

\* the characters of the color strings: the mark, two hexadecimal digits and
\* a letter that is not one
ColorChars == {"#", "0", "F", "G"}
HexDigits == {"0", "F"}
HexValue == [c \in HexDigits |-> IF c = "F" THEN 15 ELSE 0]

\* JavaScript numbers as far as parseColor produces them
Num(n) == [num |-> n]
NaN == [nan |-> TRUE]

\* the value of a sequence of hexadecimal digits
RECURSIVE HexNumber(_)
HexNumber(digits) ==
  IF digits = <<>> THEN 0
  ELSE 16 * HexNumber(SubSeq(digits, 1, Len(digits) - 1)) + HexValue[digits[Len(digits)]]

\* the longest prefix of str made of hexadecimal digits
RECURSIVE HexPrefix(_)
HexPrefix(str) ==
  IF str = <<>> \/ Head(str) \notin HexDigits THEN <<>>
  ELSE <<Head(str)>> \o HexPrefix(Tail(str))

\* parseInt(str, 16): the number written by the leading digits, NaN if
\* there is none
parseInt16(str) ==
  IF HexPrefix(str) = <<>> THEN NaN ELSE Num(HexNumber(HexPrefix(str)))

\* str.substring(from, to) with 0 <= from <= to (0-based, to excluded)
substring(str, from, to) ==
  SubSeq(str, (IF from > Len(str) THEN Len(str) ELSE from) + 1,
              IF to > Len(str) THEN Len(str) ELSE to)

\* main.js:66-74
parseColor(color) ==
  IF ~(color # <<>> /\ Head(color) = "#")
    THEN [r |-> Num(255), g |-> Num(255), b |-> Num(255)]
    ELSE LET hex == substring(color, 1, Len(color))
         IN [r |-> parseInt16(substring(hex, 0, 2)),
             g |-> parseInt16(substring(hex, 2, 4)),
             b |-> parseInt16(substring(hex, 4, 6))]

\* the characters of the wrapped texts and the width the canvas measures for
\* each: a narrow one, a wide one and one without width
Chars == {"i", "W", "."}
CharWidth == [c \in Chars |-> IF c = "i" THEN 1 ELSE IF c = "W" THEN 3 ELSE 0]

\* main.js:111  ctx.measureText(line).width: the widths of the characters,
\* an "i" that follows a "W" being tucked under it (kerning); appending a
\* character never makes a line narrower
RECURSIVE measureText(_)
measureText(line) ==
  IF line = <<>> THEN 0
  ELSE LET n == Len(line)
           kern == IF n > 1 /\ line[n - 1] = "W" /\ line[n] = "i" THEN 1 ELSE 0
       IN measureText(SubSeq(line, 1, n - 1)) + CharWidth[line[n]] - kern

\* the loop of wrapText that starts a new line without looking at
\* currentLine.length
RECURSIVE wrapLoop_NoLengthTest(_, _, _, _)
wrapLoop_NoLengthTest(text, lines, currentLine, maxWidth) ==
  IF text = <<>>
    THEN IF Len(currentLine) > 0 THEN Append(lines, currentLine) ELSE lines
    ELSE LET char == Head(text)
             testLine == Append(currentLine, char)
         IN IF measureText(testLine) > maxWidth
              THEN wrapLoop_NoLengthTest(Tail(text), Append(lines, currentLine),
                                         <<char>>, maxWidth)
              ELSE wrapLoop_NoLengthTest(Tail(text), lines, testLine, maxWidth)

\* main.js:109-120: the loop of wrapText over the remaining characters `text`
\* and the final push
RECURSIVE wrapLoop(_, _, _, _)
wrapLoop(text, lines, currentLine, maxWidth) ==
  IF text = <<>>
    THEN IF Len(currentLine) > 0 THEN Append(lines, currentLine) ELSE lines
    ELSE LET char == Head(text)
             testLine == Append(currentLine, char)
         IN IF measureText(testLine) > maxWidth /\ Len(currentLine) > 0
              THEN wrapLoop(Tail(text), Append(lines, currentLine), <<char>>, maxWidth)
              ELSE wrapLoop(Tail(text), lines, testLine, maxWidth)

\* main.js:105-121
wrapText(text, maxWidth) == wrapLoop(text, <<>>, <<>>, maxWidth)

\* getColorByBrightness with the boundary on the dark side
getColorByBrightness_AtLeast(brightness) ==
  [color |-> IF Greater(BRIGHTNESS_THRESHOLD, brightness) THEN "#FFFFFF" ELSE "#000000",
   type  |-> IF Greater(BRIGHTNESS_THRESHOLD, brightness) THEN "light" ELSE "dark"]

\* main.js:92-96
getColorByBrightness(brightness) ==
  [color |-> IF Greater(brightness, BRIGHTNESS_THRESHOLD) THEN "#000000" ELSE "#FFFFFF",
   type  |-> IF Greater(brightness, BRIGHTNESS_THRESHOLD) THEN "dark" ELSE "light"]

\* main.js:263-269, the result of analyzeImageColor for region averages avg
analyzeImageColor(avg) ==
  LET brightness == calculateBrightness(avg[1], avg[2], avg[3])
      c == getColorByBrightness(brightness)
  IN [color |-> c.color, brightness |-> brightness, type |-> c.type]

\* what analyzeImageColor can return in a batch
AnalyzedColors == {analyzeImageColor(avg) : avg \in AverageColors}

\* main.js:43: the names createTempDir can produce.  The name is built from
\* the clock and a random suffix, so it may be new or may repeat a registered
\* one; names are interchangeable, so a new name is the first unused one.
NewDirNames(registered) ==
  LET unused == {n \in DOMAIN DirNames : DirNames[n] \notin registered}
  IN registered \cup {DirNames[n] : n \in {m \in unused : \A o \in unused : m <= o}}

----------------------------------------------------------------------------
(* The list of the page, src/script.js *)

\* script.js:36-44: the entry made for a selected path
Video(filepath) == [name |-> basename(filepath), path |-> filepath, status |-> "pending"]

\* script.js:84-96: the row rendered for an entry: the name shown, the width
\* of the progress fill in percent, whether the bar carries the class `show`,
\* and the status element
Row(video) == [name |-> video.name, width |-> 0, show |-> FALSE, status |-> "pending"]

\* script.js:81-98: the list is emptied and one row per entry is appended
updateFileList(videos) == [k \in DOMAIN videos |-> Row(videos[k])]

\* checkProcessButton that looks at the list only
checkProcessButton_ListOnly(videos, processing) == Len(videos) = 0

\* script.js:100-102: the value assigned to processButton.disabled
checkProcessButton(videos, processing) == Len(videos) = 0 \/ processing

----------------------------------------------------------------------------
(* Error messages *)

\* main.js:388 (the message literal, given here in ASCII)
FileMissingError == "file does not exist"
\* main.js:209 (the tool's error) and main.js:212 (no video stream)
ProbeErrors == {"ffprobe failed", "no video stream"}
MkdirError == "mkdir failed"
ThumbnailError == "thumbnail extraction failed"
SharpError == "pixel access failed"
CanvasError == "canvas failed"
WriteError == "write failed"
FfmpegError == "ffmpeg failed"
DestroyedError == "Object has been destroyed"
----------------------------------------------------------------------------
(* The current iteration's locals *)

total == Len(videoFiles)
videoFile == videoFiles[i + 1]
baseName == basename(videoFile)

\* one entry of the call log: the job index, the callee, what happened (the
\* call was made, it returned or settled "ok", or it threw or rejected with
\* "error"), the value or error message, and how many messages had been sent
Log(name, what, value, ev) ==
  [job |-> i, stage |-> name, what |-> what, value |-> value, at |-> Len(ev)]
Call(name, ev) == Log(name, "call", NoValue, ev)
Ok(name, ev) == Log(name, "ok", NoValue, ev)
Err(name, msg, ev) == Log(name, "error", msg, ev)

(* The payloads of mainWindow.webContents.send *)

\* main.js:398-403
StatusMsg ==
  [channel |-> "processing-status", file |-> baseName, status |-> "analyzing",
   index |-> i, total |-> total]

\* main.js:410-417
ColorMsg(colorResult) ==
  [channel |-> "color-analyzed", file |-> baseName, color |-> colorResult.color,
   brightness |-> colorResult.brightness, type |-> colorResult.type,
   position |-> position, index |-> i]

\* main.js:420-427
ColorErrorMsg(msg) ==
  [channel |-> "color-analyzed", file |-> baseName, color |-> watermarkColor,
   error |-> msg, type |-> "original", position |-> position, index |-> i]

\* main.js:436-441
ProgressMsg(progress) ==
  [channel |-> "processing-progress", file |-> baseName, progress |-> progress,
   index |-> i, total |-> total]

\* main.js:445
CompletedMsg ==
  [channel |-> "file-completed", file |-> baseName, status |-> "success",
   index |-> i, total |-> total]

\* main.js:449
CompletedErrorMsg(msg) ==
  [channel |-> "file-completed", file |-> baseName, status |-> "error",
   error |-> msg, index |-> i, total |-> total]

\* main.js:444
SuccessResult ==
  [file |-> baseName, status |-> "success", output |-> outputFileOf(videoFile),
   color |-> finalColor, colorType |-> colorType]

\* main.js:448
ErrorResult(msg) == [file |-> baseName, status |-> "error", error |-> msg]

\* mainWindow.webContents.send(...) returns normally only while the window
\* exists; on a destroyed BrowserWindow the access throws a TypeError.
SendThrows == mainWindow = "destroyed"

----------------------------------------------------------------------------
(* Init: the page is loaded, the form is filled in and a list of videos  *)
(* (possibly none) is selected and rendered; nothing has been requested   *)
(* yet.                                                                   *)

\* cleanupTempDirs has not been called: the directories whose removal was
\* attempted, those whose removal failed and was logged, and, once the
\* function has returned, the members of tempDirs at that moment
NotQuitting == [state |-> "idle", attempted |-> {}, warned |-> {}, final |-> {}]

\* everything of the batch runner and the page at rest
Idle ==
  /\ i = 0
  /\ pc = "idle"
  /\ results = <<>>
  /\ finalColor = NoValue
  /\ colorType = NoValue
  /\ raised = NoValue
  /\ tempDirs = {}
  /\ mainWindow = "open"
  /\ events = <<>>
  /\ stages = <<>>
  /\ nprog = 0
  /\ uncaught = FALSE
  /\ alert = NoValue
  /\ cleanup = NotQuitting
  /\ isProcessing = FALSE
  /\ dialog = "closed"
  /\ seen = 0
  /\ inflight = 0

\* The page shows the list sel.  A list that is not empty was put there by
\* the file selector, which enabled the button (script.js:45-46); with no
\* list yet the button is as the page's markup has it, which may be either.
Showing(sel) ==
  /\ selectedVideos = sel
  /\ rows = updateFileList(sel)
  /\ disabled \in (IF Len(sel) = 0 THEN BOOLEAN ELSE {FALSE})

Init ==
  /\ \E n \in 0..MaxFiles : Showing([k \in 1..n |-> Video(File(k))])
  /\ videoFiles = <<>>
  /\ enableSmartColor \in BOOLEAN
  /\ watermarkColor \in WatermarkColors
  /\ selectedPosition \in Positions
  /\ position = NoValue
  /\ watermarkText \in WatermarkTexts
  /\ Idle
  /\ arg = NoValue
  /\ out = <<>>

----------------------------------------------------------------------------
(* Stretches of the handler shared by several resumption points.  Each     *)
(* takes the messages ev and the call log st accumulated so far in the     *)
(* step, and sets i, pc, results, events, stages, finalColor, colorType    *)
(* and raised.                                                             *)

\* CatchBlock without the push of line 448
CatchBlock_NoPush(ev, st, res, msg) ==
  /\ results' = res
  /\ stages' = st
  /\ finalColor' = NoValue
  /\ colorType' = NoValue
  /\ IF SendThrows
       THEN /\ events' = ev
            /\ pc' = "rejected"
            /\ raised' = DestroyedError
            /\ i' = i
       ELSE /\ events' = Append(ev, CompletedErrorMsg(msg))
            /\ pc' = "loop"
            /\ raised' = raised
            /\ i' = i + 1

\* main.js:446-450, the catch block of one iteration, entered with the
\* thrown error's message.  The send at line 449 is not itself guarded: if
\* it throws, the exception leaves the async handler, whose promise rejects.
CatchBlock(ev, st, res, msg) ==
  /\ results' = Append(res, ErrorResult(msg))
  /\ stages' = st
  /\ finalColor' = NoValue
  /\ colorType' = NoValue
  /\ IF SendThrows
       THEN /\ events' = ev
            /\ pc' = "rejected"
            /\ raised' = DestroyedError
            /\ i' = i
       ELSE /\ events' = Append(ev, CompletedErrorMsg(msg))
            /\ pc' = "loop"
            /\ raised' = raised
            /\ i' = i + 1

\* main.js:431-435: scale the font, generateWatermarkImage (synchronous, may
\* throw), buildOverlayFilter, then the call of processVideoWithCanvasWatermark,
\* which suspends in `await createTempDir()` (line 296).
SynthesizeAndComposite(ev, st, color, type) ==
  \/ CatchBlock(ev, Append(st, Err("generateWatermarkImage", CanvasError, ev)),
                results, CanvasError)
  \/ /\ stages' = st \o << Ok("generateWatermarkImage", ev),
                           Call("processVideoWithCanvasWatermark", ev),
                           Call("createTempDir", ev) >>
     /\ events' = ev
     /\ finalColor' = color
     /\ colorType' = type
     /\ pc' = "compositeTempDir"
     /\ UNCHANGED <<i, results, raised>>

\* main.js:418-428: the inner catch of the color analysis, then on to 431
AnalysisFailed(msg) ==
  LET st == Append(stages, Err("analyzeVideoColor", msg, events)) IN
  IF SendThrows
    THEN CatchBlock(events, st, results, DestroyedError)
    ELSE SynthesizeAndComposite(Append(events, ColorErrorMsg(msg)), st,
                                finalColor, colorType)

----------------------------------------------------------------------------
(* The request: the click handler of the page, script.js:105-155 *)

\* script.js:115 and script.js:120 (the page's texts are Chinese)
AlertNoText == "please fill in the watermark text"
AlertNoFiles == "please select video files first"

\* script.js:150 (the alert of the catch block, for the error message)
AlertFailed(msg) == <<"processing failed", msg>>

\* everything the click handler leaves alone
ClickFrame ==
  UNCHANGED <<enableSmartColor, watermarkColor, watermarkText, arg, out,
              cleanup, i, results, finalColor, colorType, raised, tempDirs,
              mainWindow, events, stages, nprog, uncaught, selectedVideos,
              selectedPosition, dialog, seen>>

\* script.js:114-122 with 151-154: an early return, after the alert, still
\* runs the finally block
Refuse(msg) ==
  /\ alert' = msg
  /\ isProcessing' = FALSE
  /\ disabled' = FALSE
  /\ UNCHANGED <<pc, videoFiles, position, rows, inflight>>

\* script.js:124-145: the flag and the button, every row marked as being
\* processed, and the call of 'process-videos' with the paths of the list
\* and the position chosen (main.js:379-382).  The model follows the
\* handler of the first call.
Invoke ==
  /\ isProcessing' = TRUE
  /\ disabled' = TRUE
  /\ rows' = [k \in DOMAIN rows |->
               [rows[k] EXCEPT !.status = "processing", !.show = TRUE]]
  /\ inflight' = inflight + 1
  /\ IF pc = "idle"
       THEN /\ pc' = "loop"
            /\ videoFiles' = [k \in DOMAIN selectedVideos |-> selectedVideos[k].path]
            /\ position' = selectedPosition
       ELSE UNCHANGED <<pc, videoFiles, position>>
  /\ UNCHANGED alert

\* the call has been made and has settled, and the page has resumed
Settled == pc \in {"returned", "rejected"} /\ inflight = 0

\* a click reaches the handler: the page is there, the button is enabled
\* and the file dialog, which is modal to the window (main.js:347), is not
\* open.  One batch is followed per run, up to the moment it has settled.
Clickable ==
  /\ mainWindow = "open"
  /\ ~disabled
  /\ dialog = "closed"
  /\ ~Settled

\* the click handler without the two early returns of lines 114-122
ProcessClick_NoValidation ==
  /\ Clickable
  /\ Invoke
  /\ ClickFrame

\* script.js:105-145: read the form, the two early returns, else invoke
\* 'process-videos' and suspend in the await of line 137
ProcessClick ==
  /\ Clickable
  /\ IF watermarkText = ""
       THEN Refuse(AlertNoText)
       ELSE IF Len(selectedVideos) = 0
              THEN Refuse(AlertNoFiles)
              ELSE Invoke
  /\ ClickFrame

----------------------------------------------------------------------------
(* Actions: one per resumption of the handler *)

\* StartJob that goes on to the probe although existsSync returned false
StartJob_NoExistsCheck ==
  /\ pc = "loop"
  /\ i < total
  /\ \E exists \in BOOLEAN :
       /\ stages' = stages \o
            << IF exists THEN Ok("existsSync", events)
                         ELSE Err("existsSync", FileMissingError, events),
               Call("getVideoInfo", events) >>
       /\ pc' = "probe"
       /\ UNCHANGED <<i, results, events, finalColor, colorType, raised>>
  /\ UNCHANGED <<opts, aux, tempDirs, mainWindow, nprog, uncaught>>

\* main.js:383-393: loop test, existsSync, up to `await getVideoInfo`
StartJob ==
  /\ pc = "loop"
  /\ i < total
  /\ \E exists \in BOOLEAN :
       IF exists
         THEN /\ stages' = stages \o << Ok("existsSync", events),
                                        Call("getVideoInfo", events) >>
              /\ pc' = "probe"
              /\ UNCHANGED <<i, results, events, finalColor, colorType, raised>>
         ELSE CatchBlock(events,
                         Append(stages, Err("existsSync", FileMissingError, events)),
                         results, FileMissingError)
  /\ UNCHANGED <<opts, aux, tempDirs, mainWindow, nprog, uncaught>>

\* main.js:383,453: the loop ends and the handler returns results
Return ==
  /\ pc = "loop"
  /\ i = total
  /\ pc' = "returned"
  /\ UNCHANGED <<opts, aux, i, results, events, stages, finalColor, colorType,
                 raised, tempDirs, mainWindow, nprog, uncaught>>

\* ProbeDone that carries on with assumed dimensions when the probe failed
ProbeDone_DefaultInfo ==
  /\ pc = "probe"
  /\ \E st \in {stages} \cup {Append(stages, Err("getVideoInfo", msg, events)) :
                                msg \in ProbeErrors} :
       IF enableSmartColor
         THEN IF SendThrows
                THEN CatchBlock(events, st, results, DestroyedError)
                ELSE /\ events' = Append(events, StatusMsg)
                     /\ stages' = st \o
                          << Call("analyzeVideoColor", Append(events, StatusMsg)),
                             Call("createTempDir", Append(events, StatusMsg)) >>
                     /\ finalColor' = watermarkColor
                     /\ colorType' = "manual"
                     /\ pc' = "analyzeTempDir"
                     /\ UNCHANGED <<i, results, raised>>
         ELSE SynthesizeAndComposite(events, st, watermarkColor, "manual")
  /\ UNCHANGED <<opts, aux, tempDirs, mainWindow, nprog, uncaught>>

\* main.js:206-223 settles; main.js:393-406 or 393-435
ProbeDone ==
  /\ pc = "probe"
  /\ \/ \E msg \in ProbeErrors :
          CatchBlock(events, Append(stages, Err("getVideoInfo", msg, events)),
                     results, msg)
     \/ IF enableSmartColor
          THEN IF SendThrows
                 THEN CatchBlock(events, stages, results, DestroyedError)
                 ELSE /\ events' = Append(events, StatusMsg)
                      /\ stages' = stages \o
                           << Call("analyzeVideoColor", Append(events, StatusMsg)),
                              Call("createTempDir", Append(events, StatusMsg)) >>
                      /\ finalColor' = watermarkColor
                      /\ colorType' = "manual"
                      /\ pc' = "analyzeTempDir"
                      /\ UNCHANGED <<i, results, raised>>
          ELSE SynthesizeAndComposite(events, stages, watermarkColor, "manual")
  /\ UNCHANGED <<opts, aux, tempDirs, mainWindow, nprog, uncaught>>

\* main.js:42-47 settles inside analyzeVideoColor (line 279)
AnalyzeTempDirDone ==
  /\ pc = "analyzeTempDir"
  /\ \/ \E dir \in NewDirNames(tempDirs) :
          /\ tempDirs' = tempDirs \cup {dir}
          /\ stages' = Append(stages, Call("extractThumbnail", events))
          /\ pc' = "extractThumbnail"
          /\ UNCHANGED <<i, results, events, finalColor, colorType, raised>>
     \/ /\ AnalysisFailed(MkdirError)
        /\ UNCHANGED tempDirs
  /\ UNCHANGED <<opts, aux, mainWindow, nprog, uncaught>>

\* main.js:231-235 settles (line 281)
ExtractThumbnailDone ==
  /\ pc = "extractThumbnail"
  /\ \/ /\ stages' = Append(stages, Call("analyzeImageColor", events))
        /\ pc' = "analyzeImageColor"
        /\ UNCHANGED <<i, results, events, finalColor, colorType, raised>>
     \/ AnalysisFailed(ThumbnailError)
  /\ UNCHANGED <<opts, aux, tempDirs, mainWindow, nprog, uncaught>>

\* AnalyzeImageColorDone without the assignments of lines 407-408
AnalyzeImageColorDone_KeepColor ==
  /\ pc = "analyzeImageColor"
  /\ \/ \E colorResult \in AnalyzedColors :
          LET st == Append(stages, Log("analyzeVideoColor", "ok", colorResult, events))
          IN IF SendThrows
               THEN CatchBlock(events, st, results, DestroyedError)
               ELSE SynthesizeAndComposite(Append(events, ColorMsg(colorResult)),
                                           st, finalColor, colorType)
     \/ AnalysisFailed(SharpError)
  /\ UNCHANGED <<opts, aux, tempDirs, mainWindow, nprog, uncaught>>

\* main.js:243-270 settles (line 282); main.js:406-417 and on to 431.  A
\* throw of the send at line 410 lands in the inner catch, whose own send
\* (line 420) throws again into the outer catch.
AnalyzeImageColorDone ==
  /\ pc = "analyzeImageColor"
  /\ \/ \E colorResult \in AnalyzedColors :
          LET st == Append(stages, Log("analyzeVideoColor", "ok", colorResult, events))
          IN IF SendThrows
               THEN CatchBlock(events, st, results, DestroyedError)
               ELSE SynthesizeAndComposite(Append(events, ColorMsg(colorResult)),
                                           st, colorResult.color, colorResult.type)
     \/ AnalysisFailed(SharpError)
  /\ UNCHANGED <<opts, aux, tempDirs, mainWindow, nprog, uncaught>>

\* CompositeTempDirDone as if line 435 did not await the compositing: once
\* ffmpeg is started the handler goes straight on to lines 444-445
CompositeTempDirDone_NoAwait ==
  /\ pc = "compositeTempDir"
  /\ \/ \E dir \in NewDirNames(tempDirs) :
          /\ tempDirs' = tempDirs \cup {dir}
          /\ \/ LET st == stages \o << Ok("writeFileSync", events),
                                       Call("ffmpeg", events) >> IN
                IF SendThrows
                  THEN CatchBlock(events, st, Append(results, SuccessResult),
                                  DestroyedError)
                  ELSE /\ results' = Append(results, SuccessResult)
                       /\ events' = Append(events, CompletedMsg)
                       /\ stages' = st
                       /\ i' = i + 1
                       /\ pc' = "loop"
                       /\ finalColor' = NoValue
                       /\ colorType' = NoValue
                       /\ UNCHANGED raised
             \/ CatchBlock(events,
                           Append(stages, Err("writeFileSync", WriteError, events)),
                           results, WriteError)
     \/ /\ pc' = "hung"
        /\ stages' = Append(stages, Err("createTempDir", MkdirError, events))
        /\ UNCHANGED <<i, results, events, finalColor, colorType, raised, tempDirs>>
  /\ UNCHANGED nprog
  /\ UNCHANGED <<opts, aux, mainWindow, uncaught>>

\* main.js:294-317: createTempDir settles inside the Promise executor.  The
\* executor is an async function and the await is outside its try: when
\* createTempDir rejects, neither resolve nor reject is ever called, so the
\* handler's await at line 435 never resumes.
CompositeTempDirDone ==
  /\ pc = "compositeTempDir"
  /\ \/ \E dir \in NewDirNames(tempDirs) :
          /\ tempDirs' = tempDirs \cup {dir}
          /\ \/ /\ stages' = stages \o << Ok("writeFileSync", events),
                                          Call("ffmpeg", events) >>
                /\ pc' = "ffmpeg"
                /\ UNCHANGED <<i, results, events, finalColor, colorType, raised>>
             \/ CatchBlock(events,
                           Append(stages, Err("writeFileSync", WriteError, events)),
                           results, WriteError)
     \/ /\ pc' = "hung"
        /\ stages' = Append(stages, Err("createTempDir", MkdirError, events))
        /\ UNCHANGED <<i, results, events, finalColor, colorType, raised, tempDirs>>
  /\ UNCHANGED nprog
  /\ UNCHANGED <<opts, aux, mainWindow, uncaught>>

\* main.js:307-309 and 435-442: one progress report of the running ffmpeg.
\* The callback runs inside ffmpeg's event listener, outside the handler's
\* try: a throwing send is an uncaught exception there.
ProgressReport(reports, max) ==
  /\ nprog < max
  /\ \E progress \in reports :
       IF SendThrows
         THEN /\ uncaught' = TRUE
              /\ UNCHANGED events
         ELSE /\ events' = Append(events, ProgressMsg(RoundedPercent(progress)))
              /\ UNCHANGED uncaught
  /\ nprog' = nprog + 1
  /\ UNCHANGED <<opts, aux, i, pc, results, stages, finalColor, colorType, raised,
                 tempDirs, mainWindow>>

FfmpegProgress ==
  /\ pc = "ffmpeg"
  /\ ProgressReport(Percents, MaxProgress)

\* the same listener fed with the wider range of reports
FfmpegReport ==
  /\ pc = "ffmpeg"
  /\ ProgressReport(Reports, MaxReports)

\* main.js:311 'end' resolves; main.js:444-445, and 446-450 if the send throws
FfmpegEnd ==
  /\ pc = "ffmpeg"
  /\ LET st == Append(stages, Ok("ffmpeg", events)) IN
     IF SendThrows
       THEN CatchBlock(events, st, Append(results, SuccessResult), DestroyedError)
       ELSE /\ results' = Append(results, SuccessResult)
            /\ events' = Append(events, CompletedMsg)
            /\ stages' = st
            /\ i' = i + 1
            /\ pc' = "loop"
            /\ finalColor' = NoValue
            /\ colorType' = NoValue
            /\ UNCHANGED raised
  /\ UNCHANGED <<opts, aux, tempDirs, mainWindow, nprog, uncaught>>

\* main.js:310 'error' rejects; main.js:446-450
FfmpegFail ==
  /\ pc = "ffmpeg"
  /\ CatchBlock(events, Append(stages, Err("ffmpeg", FfmpegError, events)),
                results, FfmpegError)
  /\ UNCHANGED <<opts, aux, tempDirs, mainWindow, nprog, uncaught>>

\* The user closes the window while the main process lives on (main.js:337-339
\* keeps the app running on darwin); mainWindow still refers to the destroyed
\* BrowserWindow, and since it is never set to null the 'activate' handler
\* (main.js:340-342) creates no new one.
CloseWindow ==
  /\ mainWindow = "open"
  /\ mainWindow' = "destroyed"
  /\ UNCHANGED <<opts, aux, i, pc, results, events, stages, finalColor, colorType,
                 raised, tempDirs, nprog, uncaught>>

Next ==
  \/ ProcessClick
  \/ StartJob
  \/ Return
  \/ ProbeDone
  \/ AnalyzeTempDirDone
  \/ ExtractThumbnailDone
  \/ AnalyzeImageColorDone
  \/ CompositeTempDirDone
  \/ FfmpegProgress
  \/ FfmpegEnd
  \/ FfmpegFail
  \/ CloseWindow

Spec == Init /\ [][Next]_vars

\* the same handler while the window stays open for the whole batch
NextWindowOpen ==
  \/ ProcessClick
  \/ StartJob
  \/ Return
  \/ ProbeDone
  \/ AnalyzeTempDirDone
  \/ ExtractThumbnailDone
  \/ AnalyzeImageColorDone
  \/ CompositeTempDirDone
  \/ FfmpegProgress
  \/ FfmpegEnd
  \/ FfmpegFail

SpecWindowOpen == Init /\ [][NextWindowOpen]_vars

(* The specifications of the helper functions: the argument is drawn from *)
(* a bounded set, one action applies the function, and nothing else moves.*)

\* no batch and no request
AtRest ==
  /\ videoFiles = <<>>
  /\ selectedVideos = <<>>
  /\ selectedPosition = "bottom-right"
  /\ rows = <<>>
  /\ disabled = TRUE
  /\ enableSmartColor = FALSE
  /\ watermarkColor = "#FFFFFF"
  /\ position = NoValue
  /\ watermarkText = ""
  /\ Idle

HelperFrame ==
  UNCHANGED <<opts, page, alert, arg, cleanup, i, pc, results, finalColor, colorType, raised,
              tempDirs, mainWindow, events, stages, nprog, uncaught>>

\* main.js:263-269: the color decision for the region averages arg
InitColor ==
  /\ arg \in Reds \X Greens \X Blues
  /\ out = <<>>
  /\ AtRest

AnalyzeColor ==
  /\ out = <<>>
  /\ out' = <<analyzeImageColor(arg)>>
  /\ HelperFrame

SpecColor == InitColor /\ [][AnalyzeColor]_vars

\* main.js:146-154: the region for a position and the size of a raster
RegionPositions == Corners \cup InheritedKeys \cup {"center", ""}
Widths == {1, 3, 10, 90, 640, 1920}
Heights == {1, 4, 90, 360, 1080}

InitRegion ==
  /\ arg \in [position : RegionPositions, width : Widths, height : Heights]
  /\ out = <<>>
  /\ AtRest

GetRegionConfig ==
  /\ out = <<>>
  /\ out' = <<getRegionConfig(arg.position, arg.width, arg.height)>>
  /\ HelperFrame

SpecRegion == InitRegion /\ [][GetRegionConfig]_vars

\* main.js:66-74: parsing a color string of at most MaxColorLen characters
ColorStrings == UNION {[1..n -> ColorChars] : n \in 0..MaxColorLen}

InitParse ==
  /\ arg \in ColorStrings
  /\ out = <<>>
  /\ AtRest

ParseColor ==
  /\ out = <<>>
  /\ out' = <<parseColor(arg)>>
  /\ HelperFrame

SpecParse == InitParse /\ [][ParseColor]_vars

\* the texts of at most MaxTextLen characters
Texts == UNION {[1..n -> Chars] : n \in 0..MaxTextLen}

\* main.js:105-121: wrapping a text to a width (a video narrower than the
\* two paddings gives a negative width, main.js:168)
InitWrap ==
  /\ arg \in [text : Texts, maxWidth : -1..MaxWidth]
  /\ out = <<>>
  /\ AtRest

WrapText ==
  /\ out = <<>>
  /\ out' = <<wrapText(arg.text, arg.maxWidth)>>
  /\ HelperFrame

SpecWrap == InitWrap /\ [][WrapText]_vars

(* The scratch directories: created by the analysis and the compositing  *)
(* of whatever requests are running, removed by cleanupTempDirs when the *)
(* application is about to quit.  cleanupTempDirs suspends at every rm,  *)
(* so directories can still be created while it runs and after it.      *)

\* the k-th directory name createTempDir comes up with
ScratchDir(k) == <<"video-wm", k>>
ScratchDirs == {ScratchDir(k) : k \in 1..MaxDirs}

CleanupFrame ==
  UNCHANGED <<opts, page, alert, arg, out, i, pc, results, finalColor, colorType,
              raised, mainWindow, events, stages, nprog, uncaught>>

\* main.js:42-47: mkdir succeeded and the directory is registered (a failed
\* mkdir registers nothing and changes nothing here)
CreateTempDir ==
  /\ \E dir \in ScratchDirs \ (tempDirs \cup cleanup.attempted) :
       tempDirs' = tempDirs \cup {dir}
  /\ UNCHANGED cleanup
  /\ CleanupFrame

\* main.js:343: 'before-quit' calls cleanupTempDirs (main.js:50-51)
BeforeQuit ==
  /\ cleanup.state = "idle"
  /\ cleanup' = [cleanup EXCEPT !.state = "running"]
  /\ UNCHANGED tempDirs
  /\ CleanupFrame

\* the loop of cleanupTempDirs in which a failing rm ends the function
RemoveDir_Rethrow ==
  /\ cleanup.state = "running"
  /\ \E dir \in tempDirs \ cleanup.attempted :
       \/ /\ tempDirs' = tempDirs \ {dir}
          /\ cleanup' = [cleanup EXCEPT !.attempted = @ \cup {dir}]
       \/ /\ cleanup' = [cleanup EXCEPT !.attempted = @ \cup {dir},
                                         !.state = "returned",
                                         !.final = tempDirs]
          /\ UNCHANGED tempDirs
  /\ CleanupFrame

\* main.js:51-57: one iteration of the loop over the Set, which visits every
\* member once, those added meanwhile included: rm settles, and either the
\* directory is deleted from the Set or the failure is logged
RemoveDir ==
  /\ cleanup.state = "running"
  /\ \E dir \in tempDirs \ cleanup.attempted :
       \/ /\ tempDirs' = tempDirs \ {dir}
          /\ cleanup' = [cleanup EXCEPT !.attempted = @ \cup {dir}]
       \/ /\ cleanup' = [cleanup EXCEPT !.attempted = @ \cup {dir},
                                         !.warned = @ \cup {dir}]
          /\ UNCHANGED tempDirs
  /\ CleanupFrame

\* main.js:51, 58: no member is left to visit and cleanupTempDirs returns
CleanupReturn ==
  /\ cleanup.state = "running"
  /\ tempDirs \ cleanup.attempted = {}
  /\ cleanup' = [cleanup EXCEPT !.state = "returned", !.final = tempDirs]
  /\ UNCHANGED tempDirs
  /\ CleanupFrame

InitCleanup ==
  /\ arg = NoValue
  /\ out = <<>>
  /\ AtRest

NextCleanup ==
  \/ CreateTempDir
  \/ BeforeQuit
  \/ RemoveDir
  \/ CleanupReturn

SpecCleanup == InitCleanup /\ [][NextCleanup]_vars

(* The progress specification: a batch of two files with the configured   *)
(* color, the window open, and ffmpeg free to report any of Reports.      *)

InitProgress ==
  /\ Showing(<<Video(File(1)), Video(File(2))>>)
  /\ videoFiles = <<>>
  /\ enableSmartColor = FALSE
  /\ watermarkColor \in WatermarkColors
  /\ selectedPosition \in Positions
  /\ position = NoValue
  /\ watermarkText = "demo"
  /\ Idle
  /\ arg = NoValue
  /\ out = <<>>

NextProgress ==
  \/ ProcessClick
  \/ StartJob
  \/ Return
  \/ ProbeDone
  \/ CompositeTempDirDone
  \/ FfmpegReport
  \/ FfmpegEnd
  \/ FfmpegFail

SpecProgress == InitProgress /\ [][NextProgress]_vars

(* The page, src/script.js: the file selector, the two listeners and the  *)
(* resumption of the click handler, running against one batch with the   *)
(* configured color while the window stays open.  The messages sent by   *)
(* the batch reach the page in the order sent, each some time later.     *)

\* the lists of paths the file dialog can come back with: they differ in
\* length and in the file at every index they share
Selections == {<<File(1)>>, <<File(2), File(1)>>}

\* everything the file selector and the listeners leave alone
PageFrame ==
  UNCHANGED <<opts, alert, arg, out, cleanup, i, pc, results, finalColor, colorType,
              raised, tempDirs, mainWindow, events, stages, nprog, uncaught,
              isProcessing, inflight>>

\* script.js:32-34 and main.js:346-350: a click on the file selector opens
\* the dialog, which is modal to the window, and the handler suspends
SelectClick ==
  /\ mainWindow = "open"
  /\ dialog = "closed"
  /\ dialog' = "open"
  /\ UNCHANGED <<selectedVideos, selectedPosition, rows, disabled, seen>>
  /\ PageFrame

\* script.js:34-48: the dialog is closed, with no path (cancelled) or with
\* some: the list is replaced, the rows are rebuilt and the button is set
SelectDone ==
  /\ dialog = "open"
  /\ dialog' = "closed"
  /\ \/ UNCHANGED <<selectedVideos, rows, disabled>>
     \/ \E filePaths \in Selections :
          LET videos == [k \in DOMAIN filePaths |-> Video(filePaths[k])] IN
          /\ selectedVideos' = videos
          /\ rows' = updateFileList(videos)
          /\ disabled' = checkProcessButton(videos, isProcessing)
  /\ UNCHANGED <<selectedPosition, seen>>
  /\ PageFrame

\* the message the page handles next
Incoming == events[seen + 1]
\* the row carrying the ids `progress-bar-${data.index}`, `status-${data.index}`
RowOf(data) == data.index + 1

\* script.js:158-165: the listener of 'processing-progress'
OnProcessingProgress ==
  /\ mainWindow = "open"
  /\ seen < Len(events)
  /\ Incoming.channel = "processing-progress"
  /\ rows' = IF RowOf(Incoming) \in DOMAIN rows
               THEN [rows EXCEPT ![RowOf(Incoming)].width = Incoming.progress]
               ELSE rows
  /\ seen' = seen + 1
  /\ UNCHANGED <<selectedVideos, selectedPosition, disabled, dialog>>
  /\ PageFrame

\* script.js:168-186: the listener of 'file-completed'
OnFileCompleted ==
  /\ mainWindow = "open"
  /\ seen < Len(events)
  /\ Incoming.channel = "file-completed"
  /\ rows' = IF RowOf(Incoming) \in DOMAIN rows
               THEN [rows EXCEPT ![RowOf(Incoming)].width = 100,
                                 ![RowOf(Incoming)].status =
                                    IF Incoming.status = "success"
                                      THEN "completed" ELSE "failed"]
               ELSE rows
  /\ seen' = seen + 1
  /\ UNCHANGED <<selectedVideos, selectedPosition, disabled, dialog>>
  /\ PageFrame

\* script.js:137-154: the call of 'process-videos' settles and the click
\* handler resumes: the alert of the catch block if it rejected, and the
\* finally block
Settle ==
  /\ mainWindow = "open"
  /\ inflight > 0
  /\ pc \in {"returned", "rejected"}
  /\ alert' = IF pc = "rejected" THEN AlertFailed(raised) ELSE alert
  /\ isProcessing' = FALSE
  /\ disabled' = FALSE
  /\ inflight' = inflight - 1
  /\ UNCHANGED <<opts, arg, out, cleanup, i, pc, results, finalColor, colorType,
                 raised, tempDirs, mainWindow, events, stages, nprog, uncaught,
                 selectedVideos, selectedPosition, rows, dialog, seen>>

\* the positions the page offers, of which two
PagePositions == {"bottom-right", "top-left"}

\* script.js:55-62: a click on a position option (the file dialog is not
\* open)
PositionClick ==
  /\ mainWindow = "open"
  /\ dialog = "closed"
  /\ \E option \in PagePositions : selectedPosition' = option
  /\ UNCHANGED <<selectedVideos, rows, disabled, dialog, seen>>
  /\ PageFrame

\* the page as loaded: no list yet, the position of script.js:2
InitFront ==
  /\ Showing(<<>>)
  /\ videoFiles = <<>>
  /\ enableSmartColor = FALSE
  /\ watermarkColor \in WatermarkColors
  /\ selectedPosition = "bottom-right"
  /\ position = NoValue
  /\ watermarkText \in WatermarkTexts
  /\ Idle
  /\ arg = NoValue
  /\ out = <<>>

NextFront ==
  \/ SelectClick
  \/ SelectDone
  \/ PositionClick
  \/ ProcessClick
  \/ StartJob
  \/ Return
  \/ ProbeDone
  \/ CompositeTempDirDone
  \/ FfmpegProgress
  \/ FfmpegEnd
  \/ FfmpegFail
  \/ OnProcessingProgress
  \/ OnFileCompleted
  \/ Settle

SpecFront == InitFront /\ [][NextFront]_vars

----------------------------------------------------------------------------
(* Vocabulary of the properties *)

Jobs == 0..(total - 1)

IsCompleted(e) == e.channel = "file-completed"
CompletedOf(j) == {n \in DOMAIN events : IsCompleted(events[n]) /\ events[n].index = j}
EventsOf(j) == {n \in DOMAIN events : events[n].index = j}
StagesOf(j) == {a \in DOMAIN stages : stages[a].job = j}
Logged(j, name, what) ==
  {a \in StagesOf(j) : stages[a].stage = name /\ stages[a].what = what}

\* job j is terminal once the handler has pushed a result entry for it;
\* entries are pushed in job order, so entry j + 1 is the first one of job j
Terminal(j) == Len(results) > j

\* the number of ffmpeg invocations that were started and have not settled
\* (every 'end' or 'error' settles one started invocation)
ActiveFfmpeg ==
  Cardinality({a \in DOMAIN stages :
                 stages[a].stage = "ffmpeg" /\ stages[a].what = "call"})
  - Cardinality({a \in DOMAIN stages :
                   stages[a].stage = "ffmpeg" /\ stages[a].what \in {"ok", "error"}})

----------------------------------------------------------------------------
(* C1: whenever the handler returns, the returned list has exactly one     *)
(* entry per input file, in input order: its length is the number of       *)
(* files and entry k carries the base name of file k, whatever the         *)
(* outcomes of the individual files were.                                  *)
C1_FullOrderedResults ==
  pc = "returned" =>
    /\ Len(results) = Len(videoFiles)
    /\ \A k \in 1..Len(videoFiles) : results[k].file = basename(videoFiles[k])

C1_Witness ==
  /\ pc = "returned"
  /\ Len(videoFiles) >= 2
  /\ \E a, b \in DOMAIN results :
       results[a].status = "success" /\ results[b].status = "error"

(* C2 as stated: every fatal error of a job (missing file, probe,          *)
(* synthesis, or compositing error, the scratch allocation and the image   *)
(* write of the compositing stage included) has become an error result     *)
(* with that message and a file-completed event with the same message,     *)
(* and the handler never rejects.                                          *)
C2_Original ==
  /\ pc # "rejected"
  /\ \A a \in DOMAIN stages :
       (/\ stages[a].what = "error"
        /\ stages[a].stage \in {"existsSync", "getVideoInfo", "generateWatermarkImage",
                                "createTempDir", "writeFileSync", "ffmpeg"})
       => LET j == stages[a].job IN
          /\ Terminal(j)
          /\ results[j + 1].status = "error"
          /\ results[j + 1].error = stages[a].value
          /\ \E n \in CompletedOf(j) :
               events[n].status = "error" /\ events[n].error = stages[a].value

(* C3: jobs run strictly one at a time in input order: the calls and the   *)
(* events are ordered by job, every call and every event of job j + 1      *)
(* comes after job j has its result entry and its file-completed event     *)
(* has been sent, and at most one ffmpeg compositing run is active.        *)
C3_Sequential ==
  /\ \A a \in DOMAIN stages : stages[a].job <= i /\ stages[a].job < Len(videoFiles)
  /\ \A a \in 1..(Len(stages) - 1) : stages[a].job <= stages[a + 1].job
  /\ \A n \in 1..(Len(events) - 1) : events[n].index <= events[n + 1].index
  /\ \A j \in 1..(Len(videoFiles) - 1) :
       LET done == CompletedOf(j - 1) IN
       /\ \A a \in StagesOf(j) :
            Terminal(j - 1) /\ \E m \in done : m <= stages[a].at
       /\ \A n \in EventsOf(j) :
            Terminal(j - 1) /\ \E m \in done : m < n
  /\ ActiveFfmpeg <= 1

C3_Witness ==
  /\ pc = "ffmpeg"
  /\ i = 1
  /\ ActiveFfmpeg = 1
  /\ Logged(0, "ffmpeg", "ok") # {}
  /\ \E n \in EventsOf(1) : events[n].channel = "processing-progress"

(* C4 as stated: every job that has reached a terminal state has exactly   *)
(* one file-completed event; it carries the job's index and the status of  *)
(* the job's result entry and is the last event of that job.               *)
C4_Original ==
  \A j \in Jobs :
    Terminal(j) =>
      /\ Cardinality(CompletedOf(j)) = 1
      /\ \A n \in CompletedOf(j) :
           /\ events[n].status = results[j + 1].status
           /\ \A m \in EventsOf(j) : m <= n

(* C5: a job whose source path does not exist fails at once with the       *)
(* file-not-found error and nothing else is done for it: no probe, no      *)
(* analysis, no scratch directory, no synthesis, no compositing, and no    *)
(* event other than its file-completed event.                              *)
C5_MissingFileStopsJob ==
  \A a \in DOMAIN stages :
    (stages[a].stage = "existsSync" /\ stages[a].what = "error") =>
      LET j == stages[a].job IN
      /\ StagesOf(j) = {a}
      /\ Terminal(j)
      /\ results[j + 1] = [file |-> basename(videoFiles[j + 1]), status |-> "error",
                           error |-> FileMissingError]
      /\ Cardinality(EventsOf(j)) <= 1
      /\ \A n \in EventsOf(j) :
           /\ IsCompleted(events[n])
           /\ events[n].status = "error"
           /\ events[n].error = FileMissingError

C5_Witness ==
  /\ pc = "returned"
  /\ Len(videoFiles) >= 2
  /\ Logged(0, "existsSync", "error") # {}
  /\ Cardinality(EventsOf(0)) = 1
  /\ Logged(1, "ffmpeg", "ok") # {}

(* C6: a job whose probe fails becomes failed with the probe's error and   *)
(* no later stage runs for it: nothing is called after getVideoInfo (no    *)
(* analysis, no scratch directory, no synthesis with assumed dimensions,   *)
(* no compositing) and its only event is the file-completed event.         *)
C6_ProbeFailureStopsJob ==
  \A a \in DOMAIN stages :
    (stages[a].stage = "getVideoInfo" /\ stages[a].what = "error") =>
      LET j == stages[a].job IN
      /\ \A b \in StagesOf(j) :
           b <= a /\ stages[b].stage \in {"existsSync", "getVideoInfo"}
      /\ Terminal(j)
      /\ results[j + 1] = [file |-> basename(videoFiles[j + 1]), status |-> "error",
                           error |-> stages[a].value]
      /\ Cardinality(EventsOf(j)) <= 1
      /\ \A n \in EventsOf(j) :
           /\ IsCompleted(events[n])
           /\ events[n].status = "error"
           /\ events[n].error = stages[a].value

C6_Witness ==
  /\ pc = "returned"
  /\ enableSmartColor
  /\ Len(videoFiles) >= 2
  /\ Logged(0, "getVideoInfo", "error") # {}
  /\ Cardinality(EventsOf(0)) = 1
  /\ Logged(1, "analyzeVideoColor", "ok") # {}

(* C7 as stated: a failed color analysis is not fatal: a color-analyzed    *)
(* event with the configured color and the error is sent, the job goes on  *)
(* to synthesis with the configured color, and a success result of the     *)
(* job carries the configured color.                                       *)
C7_Original ==
  \A a \in DOMAIN stages :
    (stages[a].stage = "analyzeVideoColor" /\ stages[a].what = "error") =>
      LET j == stages[a].job IN
      /\ \E n \in EventsOf(j) :
           /\ events[n].channel = "color-analyzed"
           /\ events[n].color = watermarkColor
           /\ events[n].type = "original"
           /\ events[n].error = stages[a].value
      /\ \E b \in StagesOf(j) : b > a /\ stages[b].stage = "generateWatermarkImage"
      /\ (Terminal(j) /\ results[j + 1].status = "success")
           => results[j + 1].color = watermarkColor

(* C8 as stated: each job moves pending -> analyzing? -> processing ->     *)
(* success | failed: analysis only with autoColor, a success only after    *)
(* processing, and a job that is terminal stays as it is: it never gets a  *)
(* second result.                                                          *)
C8_Original ==
  /\ \A a \in DOMAIN stages : stages[a].stage = "analyzeVideoColor" => enableSmartColor
  /\ \A n \in DOMAIN events :
       events[n].channel = "processing-status" => enableSmartColor
  /\ \A k \in DOMAIN results :
       results[k].status = "success" =>
         /\ Logged(k - 1, "generateWatermarkImage", "ok") # {}
         /\ Logged(k - 1, "processVideoWithCanvasWatermark", "call") # {}
  /\ \A k1, k2 \in DOMAIN results : results[k1].file = results[k2].file => k1 = k2

(* C9: the color recorded for a successful job is the analyzer's           *)
(* recommended color exactly when autoColor is set and the analysis        *)
(* succeeded; then exactly one color-analyzed event with that color and    *)
(* its brightness was sent before synthesis.  Otherwise the recorded color *)
(* is the configured one, and without autoColor the job has no analyzing   *)
(* status event and no color-analyzed event.                               *)
C9_AppliedColor ==
  \A k \in DOMAIN results :
    results[k].status = "success" =>
      LET j == k - 1
          analyzed == Logged(j, "analyzeVideoColor", "ok")
          colorEvents == {n \in EventsOf(j) : events[n].channel = "color-analyzed"}
          statusEvents == {n \in EventsOf(j) : events[n].channel = "processing-status"}
      IN
      /\ results[k].file = basename(videoFiles[k])
      /\ analyzed # {} => enableSmartColor
      /\ \A a \in analyzed :
           LET recommended == getColorByBrightness(stages[a].value.brightness) IN
           /\ results[k].color = recommended.color
           /\ results[k].colorType = recommended.type
           /\ Cardinality(colorEvents) = 1
           /\ \A n \in colorEvents :
                /\ events[n].color = recommended.color
                /\ events[n].brightness = stages[a].value.brightness
                /\ "error" \notin DOMAIN events[n]
                /\ \A b \in Logged(j, "generateWatermarkImage", "ok") : n <= stages[b].at
      /\ analyzed = {} =>
           /\ results[k].color = watermarkColor
           /\ results[k].colorType = "manual"
      /\ ~enableSmartColor => colorEvents = {} /\ statusEvents = {}
      /\ enableSmartColor => Cardinality(statusEvents) = 1

C9_Witness ==
  /\ enableSmartColor
  /\ \E k \in DOMAIN results :
       /\ results[k].status = "success"
       /\ results[k].color # watermarkColor
       /\ Logged(k - 1, "analyzeVideoColor", "ok") # {}

(* C10 as stated: sending events never changes the course of the batch,    *)
(* whether or not the window exists: no job fails with an error of the     *)
(* send itself, no exception escapes a progress callback, and the handler  *)
(* never rejects instead of returning its list.                            *)
C10_Original ==
  /\ pc # "rejected"
  /\ ~uncaught
  /\ \A k \in DOMAIN results :
       results[k].status = "error" => results[k].error # DestroyedError

(* C11: a batch request whose text is empty or whose file list is empty   *)
(* is turned down at entry: the handler never runs, so no stage is logged, *)
(* no event is sent and no result list (not even an empty one) comes back. *)
C11_InvalidRejected ==
  (watermarkText = "" \/ Len(selectedVideos) = 0) =>
     /\ pc = "idle"
     /\ stages = <<>>
     /\ events = <<>>
     /\ results = <<>>

\* an invalid request was made and answered with an alert
C11_Witness ==
  /\ watermarkText = "" \/ Len(selectedVideos) = 0
  /\ alert \in {AlertNoText, AlertNoFiles}

\* the result entries of the successful jobs
Successes == {k \in DOMAIN results : results[k].status = "success"}

(* C12 as stated: the output of every successful job is written next to  *)
(* its source as <stem>-watermark<ext>, where <ext> is the extension of  *)
(* the source.                                                           *)
C12_Original ==
  \A k \in Successes :
     /\ results[k].output.dir = videoFiles[k].dir
     /\ results[k].output.stem = videoFiles[k].stem
     /\ results[k].output.suffix = "-watermark"
     /\ results[k].output.ext = videoFiles[k].ext

(* C12: the output of every successful job is written next to its source *)
(* as <stem>-watermark.mp4, whatever the extension of the source; the    *)
(* two names differ only in the inserted suffix exactly when the source  *)
(* is an .mp4 file.                                                      *)
C12_OutputIsMp4 ==
  \A k \in Successes :
     /\ results[k].output.dir = videoFiles[k].dir
     /\ results[k].output.stem = videoFiles[k].stem
     /\ results[k].output.suffix = "-watermark"
     /\ results[k].output.ext = ".mp4"
     /\ (results[k].output.ext = videoFiles[k].ext) <=> (videoFiles[k].ext = ".mp4")

\* a source that is not an .mp4 file was watermarked successfully
C12_Witness ==
  \E k \in Successes : videoFiles[k].ext = ".mov"

\* the positions of the progress messages among the messages sent
ProgressEvents == {n \in DOMAIN events : events[n].channel = "processing-progress"}

(* C13 as stated: the percentages of the progress events of a job are     *)
(* integers in [0,100] and never decrease, whatever ffmpeg reports; each  *)
(* event carries the index of the job being composited and is sent after  *)
(* that job's ffmpeg was started and before its file-completed event.     *)
C13_Original ==
  \A n \in ProgressEvents :
     LET j == events[n].index IN
     /\ events[n].progress \in 0..100
     /\ \A m \in ProgressEvents :
          (m < n /\ events[m].index = j) => events[m].progress <= events[n].progress
     /\ j \in Jobs
     /\ \E a \in Logged(j, "ffmpeg", "call") : stages[a].at < n
     /\ \A c \in CompletedOf(j) : n < c

(* C14 as stated: with brightness = (0.299r + 0.587g + 0.114b)/255 over   *)
(* the averaged channels, a brightness above 0.5 selects black and class  *)
(* dark, a brightness of 0.5 or less selects white and class light, and   *)
(* an all-black region has brightness 0, class light and color white.     *)
(* The comparison with 0.5 is made exactly, on 299r + 587g + 114b and     *)
(* 127500.                                                                *)
C14_Original ==
  out # <<>> =>
    LET exact == 299 * arg[1] + 587 * arg[2] + 114 * arg[3] IN
    /\ exact > 127500 => (out[1].color = "#000000" /\ out[1].type = "dark")
    /\ exact <= 127500 => (out[1].color = "#FFFFFF" /\ out[1].type = "light")
    /\ arg = <<0, 0, 0>> => out[1].brightness = <<0, 0, 0>>

Black == [color |-> "#000000", type |-> "dark"]
White == [color |-> "#FFFFFF", type |-> "light"]
Decision(result) == [color |-> result.color, type |-> result.type]

(* C14: the color decision is a threshold on the brightness computed in   *)
(* double precision as (0.299*r + 0.587*g + 0.114*b)/255: a computed      *)
(* brightness above 0.5 selects black and class dark, one of 0.5 or less, *)
(* exactly 0.5 included, selects white and class light.  The decision is  *)
(* the one of the exact value of the formula wherever that value is not   *)
(* 0.5; where it is exactly 0.5 the computed brightness is 0.5 or less    *)
(* and white is selected, except for the averages 218, 58, 248, whose     *)
(* computed brightness is 0.5000000000000001 and which select black.  An  *)
(* all-black region has brightness 0, class light and color white.        *)
C14_ThresholdOnComputed ==
  out # <<>> =>
    LET exact == 299 * arg[1] + 587 * arg[2] + 114 * arg[3]
        computed == out[1].brightness
    IN /\ Greater(computed, BRIGHTNESS_THRESHOLD) => Decision(out[1]) = Black
       /\ ~Greater(computed, BRIGHTNESS_THRESHOLD) => Decision(out[1]) = White
       /\ exact > 127500 => Decision(out[1]) = Black
       /\ exact < 127500 => Decision(out[1]) = White
       /\ exact = 127500 =>
            IF arg = <<218, 58, 248>>
              THEN computed = <<2 ^ 14, 0, 2 ^ 18>> /\ Decision(out[1]) = Black
              ELSE Decision(out[1]) = White
       /\ arg = <<22, 206, 0>> => computed = BRIGHTNESS_THRESHOLD
       /\ arg = <<0, 0, 0>> => computed = <<0, 0, 0>>

\* the averages whose exact brightness is 0.5 were decided as black
C14_Witness ==
  /\ out # <<>>
  /\ arg = <<218, 58, 248>>
  /\ 299 * arg[1] + 587 * arg[2] + 114 * arg[3] = 127500
  /\ Decision(out[1]) = Black

\* the lines one after the other
RECURSIVE Flatten(_)
Flatten(lines) == IF lines = <<>> THEN <<>> ELSE Head(lines) \o Flatten(Tail(lines))

(* C15: for every text and every maxWidth, under a measure that does not  *)
(* shrink when characters are appended, the lines of wrapText are (a) no  *)
(* wider than maxWidth unless they consist of a single character, (b)     *)
(* never empty, and (c) concatenated in order they are the text.          *)
C15_WrapText ==
  out # <<>> =>
    LET lines == out[1] IN
    /\ \A k \in DOMAIN lines :
         measureText(lines[k]) <= arg.maxWidth \/ Len(lines[k]) = 1
    /\ \A k \in DOMAIN lines : lines[k] # <<>>
    /\ Flatten(lines) = arg.text

\* a text was wrapped into several lines, one of them a single character
\* wider than maxWidth, another one of several characters
C15_Witness ==
  /\ out # <<>>
  /\ \E k, l \in DOMAIN out[1] :
       /\ Len(out[1][k]) = 1 /\ measureText(out[1][k]) > arg.maxWidth
       /\ Len(out[1][l]) > 1

\* the corner a position stands for: itself, or bottom-right if unknown
CornerOf(pos) == IF pos \in Corners THEN pos ELSE "bottom-right"

\* the region r lies within a raster of the size given in arg
Contained(r) ==
  /\ 0 <= r.left
  /\ 0 <= r.top
  /\ r.left + r.width <= arg.width
  /\ r.top + r.height <= arg.height

Offset70(x, d) ==
  \/ x = (7 * d) \div 10
  \/ (7 * d) % 10 = 0 /\ x = (7 * d) \div 10 - 1

CompositingErrors ==
  {a \in DOMAIN stages :
     /\ stages[a].what = "error"
     /\ stages[a].stage \in {"createTempDir", "writeFileSync", "ffmpeg"}}

(* C17 as stated: every error of the compositing stage (ffmpeg reporting  *)
(* an error, the scratch directory not being created, the watermark image *)
(* not being written) settles the compositing call with that error: the   *)
(* handler resumes, the job has its error result with that message, and   *)
(* no compositing call is left that can never settle.                     *)
C17_Original ==
  /\ pc # "hung"
  /\ \A a \in CompositingErrors :
       /\ Len(results) > stages[a].job
       /\ results[stages[a].job + 1] =
            [file |-> basename(videoFiles[stages[a].job + 1]),
             status |-> "error", error |-> stages[a].value]

(* C18: every scratch directory is in tempDirs from the moment            *)
(* createTempDir has made it until it is removed; cleanupTempDirs         *)
(* attempts the removal of every registered directory, a failed removal   *)
(* is logged and the loop goes on, and when cleanupTempDirs returns the   *)
(* members of tempDirs are exactly the directories whose removal failed   *)
(* (none if no removal failed).                                           *)
C18_Cleanup ==
  /\ cleanup.warned \subseteq cleanup.attempted
  /\ cleanup.warned \subseteq tempDirs
  /\ \A dir \in cleanup.attempted : dir \in tempDirs <=> dir \in cleanup.warned
  /\ cleanup.state = "running" => tempDirs \cap cleanup.attempted = cleanup.warned
  /\ cleanup.state = "returned" =>
       /\ cleanup.final = cleanup.warned
       /\ cleanup.final \subseteq cleanup.attempted

\* cleanupTempDirs returned after it removed a directory, failed to remove
\* an earlier one and went on
C18_Witness ==
  /\ cleanup.state = "returned"
  /\ cleanup.warned # {}
  /\ cleanup.attempted \ cleanup.warned # {}
  /\ cleanup.final = cleanup.warned

\* the scratch allocations that succeeded: each analysis allocation is
\* followed by the call of extractThumbnail, each compositing allocation by
\* the write of watermark.png
Allocations ==
  {a \in DOMAIN stages :
     \/ stages[a].stage = "extractThumbnail" /\ stages[a].what = "call"
     \/ stages[a].stage = "writeFileSync"}

(* C19 as stated: no two scratch allocations share a path: every call of  *)
(* createTempDir yields a directory that differs from every directory in  *)
(* tempDirs, so there are as many registered directories as allocations.  *)
C19_Original == Cardinality(tempDirs) = Cardinality(Allocations)

\* a string of the form #RRGGBB
WellFormed(color) ==
  /\ Len(color) = 7
  /\ color[1] = "#"
  /\ \A k \in 2..7 : color[k] \in HexDigits

(* C20 as stated: parseColor returns the three channels, integers in      *)
(* 0..255, of a well-formed #RRGGBB string, and opaque white for every    *)
(* other string (no leading '#', wrong length, a character that is not a  *)
(* hexadecimal digit), never a channel that is not a number.              *)
C20_Original ==
  out # <<>> =>
    IF WellFormed(arg)
      THEN out[1] = [r |-> Num(16 * HexValue[arg[2]] + HexValue[arg[3]]),
                     g |-> Num(16 * HexValue[arg[4]] + HexValue[arg[5]]),
                     b |-> Num(16 * HexValue[arg[6]] + HexValue[arg[7]])]
      ELSE out[1] = [r |-> Num(255), g |-> Num(255), b |-> Num(255)]

----------------------------------------------------------------------------
\* a listener handles the next message and finds the row of its index
Updates == seen' = seen + 1 /\ RowOf(Incoming) \in DOMAIN rows

(* C21 as stated: whenever the page handles a processing-progress or a    *)
(* file-completed message and updates the row of the message's index,     *)
(* that row shows the file the batch runner sent the message for, also    *)
(* when a new list was selected while the batch was running.              *)
C21_Original ==
  [][Updates => selectedVideos[RowOf(Incoming)].path = videoFiles[RowOf(Incoming)]]_vars

----------------------------------------------------------------------------
(* C22: the page never has two processVideos calls in flight: while one   *)
(* is, isProcessing is set and the button is disabled whatever the user   *)
(* does meanwhile (selecting files, choosing a position), and the step in *)
(* which the call settles clears isProcessing and enables the button.     *)
C22_SingleBatch ==
  [][/\ inflight' <= 1
     /\ inflight' > 0 => isProcessing' /\ disabled'
     /\ inflight' < inflight => ~isProcessing' /\ ~disabled']_vars

\* a batch is in flight, and since it was started the user has selected a
\* list of another length and chosen another position
C22_Witness ==
  /\ inflight = 1
  /\ dialog = "closed"
  /\ Len(selectedVideos) # Len(videoFiles)
  /\ selectedPosition # position

====
